---- MODULE Spec2Model ----
(***************************************************************************)
(* LeetCode tracker (single page client): initial load from the local      *)
(* store or the network, merge of the fetched dataset with locally stored  *)
(* progress, the filter/sort view effect, in-place edits and the pager.    *)
(*                                                                         *)
(* JavaScript strings that the code inspects (id, title, query) are        *)
(* sequences of one-character strings; strings the code only copies        *)
(* (slug, contest, notes, tc, sc) are TLA+ strings.  An optional field of  *)
(* a raw item is a sequence of length 0 (missing) or 1 (present).  A raw   *)
(* Rating is a fixed-point number in tenths (12004 is 1200.4).             *)
(***************************************************************************)
EXTENDS Integers, Sequences, FiniteSets

\* ---------------------------------------------------------------- bounds
MaxLen   == 3      \* longest remote dataset / stored list
MaxEvents == 3     \* user events handled per session
MaxPage  == 4      \* cap on the page counter (Next stays enabled past the last page)
PageUnit == 1      \* smallest page size; the select's 25/50/100 scaled to 1/2/4 units

\* ------------------------------------------------------------- constants
DATA_VERSION == 1
FilterMinDefault == 0
FilterMaxDefault == 3500

PageSizeOptions == {PageUnit, 2 * PageUnit, 4 * PageUnit}
PageSizeDefault == PageUnit

\* --------------------------------------------------------------- strings
Digit(d) ==
  CASE d = 0 -> "0" [] d = 1 -> "1" [] d = 2 -> "2" [] d = 3 -> "3"
    [] d = 4 -> "4" [] d = 5 -> "5" [] d = 6 -> "6" [] d = 7 -> "7"
    [] d = 8 -> "8" [] OTHER -> "9"

RECURSIVE ToString(_)
\* String(n) for a non-negative integer: its decimal digits
ToString(n) ==
  IF n < 10 THEN <<Digit(n)>> ELSE ToString(n \div 10) \o <<Digit(n % 10)>>

\* UTF-16 code unit of the characters the model uses
CharCode(c) ==
  CASE c = "0" -> 48 [] c = "1" -> 49 [] c = "2" -> 50 [] c = "3" -> 51
    [] c = "4" -> 52 [] c = "5" -> 53 [] c = "6" -> 54 [] c = "7" -> 55
    [] c = "8" -> 56 [] c = "9" -> 57
    [] c = "A" -> 65 [] c = "B" -> 66 [] c = "a" -> 97 [] c = "b" -> 98
    [] OTHER -> 120

LowerChar(c) == CASE c = "A" -> "a" [] c = "B" -> "b" [] OTHER -> c

toLowerCase(s) == [i \in 1..Len(s) |-> LowerChar(s[i])]

\* s.includes(q)
includes(s, q) ==
  \E k \in 0..(Len(s) - Len(q)) : SubSeq(s, k + 1, k + Len(q)) = q

RECURSIVE StrLess(_, _)
\* a < b on strings: lexicographic by code unit, a proper prefix is smaller
StrLess(a, b) ==
  IF b = <<>> THEN FALSE
  ELSE IF a = <<>> THEN TRUE
  ELSE IF CharCode(Head(a)) # CharCode(Head(b))
       THEN CharCode(Head(a)) < CharCode(Head(b))
       ELSE StrLess(Tail(a), Tail(b))

\* Math.round of a number given in tenths: floor(x + 0.5)
MathRound(tenths) == (tenths + 5) \div 10

\* ------------------------------------------------------------ difficulty
inferDifficulty(idx) ==
  IF idx = <<"Q1">> THEN "Easy"
  ELSE IF (IF idx = <<>> THEN "" ELSE idx[1]) \in {"Q3", "Q4", "Q5"} THEN "Hard"
  ELSE "Medium"

\* ------------------------------------------------------ remote dataset
\* The i-th record of the remote feed (RawItem of the source).
RawItem(i) ==
  CASE i = 1 -> [ID |-> 1,  Title |-> <<"A", "b">>, TitleSlug |-> "s1",
                 Rating |-> <<12004>>, ContestID_en |-> <<"c1">>,
                 ProblemIndex |-> <<"Q1">>]
    [] i = 2 -> [ID |-> 12, Title |-> <<"b">>, TitleSlug |-> "s12",
                 Rating |-> <<>>, ContestID_en |-> <<>>,
                 ProblemIndex |-> <<>>]
    [] i = 3 -> [ID |-> 2,  Title |-> <<"B", "a">>, TitleSlug |-> "s2",
                 Rating |-> <<20005>>, ContestID_en |-> <<"c2">>,
                 ProblemIndex |-> <<"Q4">>]
    [] OTHER -> [ID |-> i,  Title |-> <<"a">>, TitleSlug |-> "sn",
                 Rating |-> <<15000>>, ContestID_en |-> <<"">>,
                 ProblemIndex |-> <<"Q2">>]

RawList(n) == [i \in 1..n |-> RawItem(i)]

\* The arrays a resolved fetch may return: an empty feed or a full one.
RawLists == {RawList(0), RawList(MaxLen)}

\* ----------------------------------------------------------- local store
\* Value under STORAGE_KEY: nothing, text that is not JSON, the text null,
\* or the JSON text of an object with a version.  shape tells what the
\* object's data field is: an array of records (held in data), a value that
\* is not an array, or missing.
StoreAbsent  == [kind |-> "absent",  version |-> 0, shape |-> "missing", data |-> <<>>]
StoreGarbage == [kind |-> "garbage", version |-> 0, shape |-> "missing", data |-> <<>>]
StoreNull    == [kind |-> "null",    version |-> 0, shape |-> "missing", data |-> <<>>]
StoreJson(v, d) == [kind |-> "json", version |-> v, shape |-> "array", data |-> d]
StoreJsonNoArray(v) == [kind |-> "json", version |-> v, shape |-> "object", data |-> <<>>]
StoreJsonNoData(v)  == [kind |-> "json", version |-> v, shape |-> "missing", data |-> <<>>]

\* A record of a snapshot written by an earlier session.
SavedItem(i) ==
  CASE i = 1 -> [id |-> <<"1">>, title |-> <<"a">>, slug |-> "old1",
                 rating |-> 1100, contest |-> "c0", difficulty |-> "Medium",
                 solved |-> TRUE, starred |-> FALSE,
                 notes |-> "x", tc |-> "", sc |-> ""]
    [] i = 2 -> [id |-> <<"7">>, title |-> <<"B">>, slug |-> "s7",
                 rating |-> 1700, contest |-> "", difficulty |-> "Hard",
                 solved |-> FALSE, starred |-> TRUE,
                 notes |-> "", tc |-> "", sc |-> "n"]
    [] i = 3 -> [id |-> <<"2">>, title |-> <<"B", "a">>, slug |-> "s2",
                 rating |-> 2001, contest |-> "c2", difficulty |-> "Hard",
                 solved |-> FALSE, starred |-> TRUE,
                 notes |-> "", tc |-> "n", sc |-> ""]
    [] OTHER -> [id |-> ToString(i + 10), title |-> <<"a", "b">>, slug |-> "sm",
                 rating |-> 0, contest |-> "", difficulty |-> "Easy",
                 solved |-> TRUE, starred |-> TRUE,
                 notes |-> "", tc |-> "", sc |-> ""]

SavedList == [i \in 1..MaxLen |-> SavedItem(i)]

\* Contents of the store when the page is opened.
InitialStores ==
  {StoreAbsent, StoreGarbage, StoreNull,
   StoreJson(DATA_VERSION, SavedList), StoreJson(DATA_VERSION + 1, SavedList),
   StoreJsonNoArray(DATA_VERSION + 1), StoreJsonNoData(DATA_VERSION)}

\* JSON.parse(text) throws exactly on text that is not JSON.
Parseable(st) == st.kind # "garbage"

\* Lines 82-87 of loadData throw: JSON.parse on text that is not JSON, or
\* parsed.version on null.
CacheReadThrows(st) == st.kind = "garbage" \/ st.kind = "null"

\* Lines 104-107 of fetchAndMerge throw: JSON.parse on text that is not JSON,
\* or saved.map on a data value that is not an array.
SavedReadThrows(st) ==
  \/ ~Parseable(st)
  \/ st.kind = "json" /\ st.shape = "object"

\* persist(data): the text of {version: DATA_VERSION, data}
persist(data) == StoreJson(DATA_VERSION, data)

\* JSON.parse(localStorage.getItem(STORAGE_KEY) || "{}")?.data || [], where
\* it is an array
saved(st) == IF st.kind = "json" /\ st.shape = "array" THEN st.data ELSE <<>>

\* new Map(saved.map((p) => [p.id, p])) of the list sv: a later entry replaces
\* an earlier one
savedMap(sv) ==
  [k \in {sv[i].id : i \in 1..Len(sv)} |->
     sv[CHOOSE i \in 1..Len(sv) :
          /\ sv[i].id = k
          /\ \A j \in 1..Len(sv) : sv[j].id = k => j <= i]]

\* Faulty variant of MergeItem: starred is copied from old.solved.
MergeItemCopyPaste(r, m) ==
  LET key == ToString(r.ID)
      has == key \in DOMAIN m
  IN [id         |-> key,
      title      |-> r.Title,
      slug       |-> r.TitleSlug,
      rating     |-> MathRound(IF r.Rating = <<>> THEN 0 ELSE r.Rating[1]),
      contest    |-> IF r.ContestID_en = <<>> THEN "" ELSE r.ContestID_en[1],
      difficulty |-> inferDifficulty(r.ProblemIndex),
      solved     |-> IF has THEN m[key].solved ELSE FALSE,
      starred    |-> IF has THEN m[key].solved ELSE FALSE,
      notes      |-> IF has THEN m[key].notes ELSE "",
      tc         |-> IF has THEN m[key].tc ELSE "",
      sc         |-> IF has THEN m[key].sc ELSE ""]

\* The callback of raw.map in fetchAndMerge; m is savedMap.
MergeItem(r, m) ==
  LET key == ToString(r.ID)
      has == key \in DOMAIN m
  IN [id         |-> key,
      title      |-> r.Title,
      slug       |-> r.TitleSlug,
      rating     |-> MathRound(IF r.Rating = <<>> THEN 0 ELSE r.Rating[1]),
      contest    |-> IF r.ContestID_en = <<>> THEN "" ELSE r.ContestID_en[1],
      difficulty |-> inferDifficulty(r.ProblemIndex),
      solved     |-> IF has THEN m[key].solved ELSE FALSE,
      starred    |-> IF has THEN m[key].starred ELSE FALSE,
      notes      |-> IF has THEN m[key].notes ELSE "",
      tc         |-> IF has THEN m[key].tc ELSE "",
      sc         |-> IF has THEN m[key].sc ELSE ""]

\* merged of fetchAndMerge
merged(sv, raw) ==
  [i \in 1..Len(raw) |-> MergeItem(raw[i], savedMap(sv))]

\* ---------------------------------------------------------- view pipeline
\* Faulty variant of PassesFilter: the query is compared without lower-casing it.
PassesFilterRawQuery(p, f) ==
  /\ p.rating >= f.min
  /\ p.rating <= f.max
  /\ (f.solved => p.solved)
  /\ (f.starred => p.starred)
  /\ (f.query # <<>> =>
        \/ includes(toLowerCase(p.title), f.query)
        \/ includes(p.id, f.query))

\* The predicate applied by the chain of list.filter calls of the effect.
PassesFilter(p, f) ==
  /\ p.rating >= f.min
  /\ p.rating <= f.max
  /\ (f.solved => p.solved)
  /\ (f.starred => p.starred)
  /\ (f.query # <<>> =>
        \/ includes(toLowerCase(p.title), toLowerCase(f.query))
        \/ includes(p.id, toLowerCase(f.query)))

\* { Easy: 1, Medium: 2, Hard: 3 }[d] ?? 0
DifficultyRank(d) ==
  CASE d = "Easy" -> 1 [] d = "Medium" -> 2 [] d = "Hard" -> 3 [] OTHER -> 0

\* A < B of the comparator, for the key the header sorts by
KeyLess(a, b, key) ==
  CASE key = "id"         -> StrLess(a.id, b.id)
    [] key = "difficulty" -> DifficultyRank(a.difficulty) < DifficultyRank(b.difficulty)
    [] OTHER              -> a.rating < b.rating

\* The comparator passed to list.sort
Compare(a, b, s) ==
  IF KeyLess(a, b, s.key) THEN (IF s.dir = "asc" THEN -1 ELSE 1)
  ELSE IF KeyLess(b, a, s.key) THEN (IF s.dir = "asc" THEN 1 ELSE -1)
  ELSE 0

RECURSIVE InsertSorted(_, _, _)
InsertSorted(x, l, s) ==
  IF l = <<>> THEN <<x>>
  ELSE IF Compare(x, Head(l), s) < 0 THEN <<x>> \o l
  ELSE <<Head(l)>> \o InsertSorted(x, Tail(l), s)

RECURSIVE SortList(_, _)
\* Array.prototype.sort: a stable sort
SortList(l, s) ==
  IF l = <<>> THEN <<>>
  ELSE InsertSorted(l[Len(l)], SortList(SubSeq(l, 1, Len(l) - 1), s), s)

\* The list the effect hands to setVisible
ViewList(all, f, s) ==
  LET filtered == SelectSeq(all, LAMBDA p : PassesFilter(p, f))
  IN IF s.key # "null" THEN SortList(filtered, s) ELSE filtered

\* Math.ceil(visible.length / pageSize)
pages(n, size) == (n + size - 1) \div size

\* visible.slice(s, s + pageSize) with s = (page - 1) * pageSize
slice(vis, pg, size) ==
  LET s == (pg - 1) * size
      lo == IF s > Len(vis) THEN Len(vis) ELSE s
      hi == IF s + size > Len(vis) THEN Len(vis) ELSE s + size
  IN SubSeq(vis, lo + 1, hi)

\* Faulty variant of ApplyPatch: the patch is applied to every record.
ApplyPatchAll(p, id, patch) ==
  [k \in DOMAIN p |-> IF k \in DOMAIN patch THEN patch[k] ELSE p[k]]

\* { ...p, ...patch } for the record with the given id, p otherwise
ApplyPatch(p, id, patch) ==
  IF p.id = id
  THEN [k \in DOMAIN p |-> IF k \in DOMAIN patch THEN patch[k] ELSE p[k]]
  ELSE p

\* ------------------------------------------------------------------ state
VARIABLES
  store,        \* value under STORAGE_KEY
  fetched,      \* history: the array the last resolved fetch returned
  allProblems, visible, loading, filters, sort, page, pageSize,
  pending,      \* setVisible(list) and setPage(1) queued by the view effect
                \* and not yet rendered: <<>> or <<[visible, resetPage]>>
  lanes,        \* which queued updates the render of a click or change takes
  pc,           \* position of loadData: init, fetchTry (line 94),
                \* fetchCatch (line 96), ready, failed (rejected promise),
                \* crashed (the render threw)
  store0,       \* history: the store when the page was opened
  fetchLog,     \* history: outcome of each fetch attempt, in order
  events        \* history: number of user events handled

vars == <<store, fetched, allProblems, visible, loading, filters, sort, page,
          pageSize, pending, lanes, pc, store0, fetchLog, events>>

\* The source does not fix the React release.  The render of a click or a
\* change takes the updates of the event only ("SyncLane", React 18: the
\* updates the effect queued are skipped and rebased) or those the effect
\* queued as well ("SyncUpdateLanes", React 19).
RenderLanes == {"SyncLane", "SyncUpdateLanes"}

\* Values typed or selected in the filter bar
MinValues   == {FilterMinDefault, 1200}
MaxValues   == {FilterMaxDefault, 1200}
QueryValues == {<<>>, <<"B">>, <<"1">>}
TextValues  == {"n"}
SortKeys    == {"id", "difficulty", "rating"}

Init ==
  /\ store0 \in InitialStores
  /\ store = store0
  /\ fetched = <<>>
  /\ allProblems = <<>>
  /\ visible = <<>>
  /\ loading = TRUE
  /\ filters = [min |-> FilterMinDefault, max |-> FilterMaxDefault,
                query |-> <<>>, solved |-> FALSE, starred |-> FALSE]
  /\ sort = [key |-> "null", dir |-> "asc"]
  /\ page = 1
  /\ pageSize = PageSizeDefault
  /\ pending = <<>>
  /\ lanes \in RenderLanes
  /\ pc = "init"
  /\ fetchLog = <<>>
  /\ events = 0

\* A user event is handled; sessions are cut off after MaxEvents of them.
Handled == events < MaxEvents /\ events' = events + 1

\* The controls are rendered
Ready == pc = "ready"

\* The render of a click or change also applies the updates the effect
\* queued before
TakesQueued == lanes = "SyncUpdateLanes" /\ pending # <<>>

\* visible and page as the render of a click or change leaves them
visibleRendered == IF TakesQueued THEN pending[1].visible ELSE visible
pageRendered == IF TakesQueued /\ pending[1].resetPage THEN 1 ELSE page

\* The render in which filters, allProblems or sort was replaced, and the
\* filter + sort effect run after it: the effect computes the list from that
\* render's values and queues setVisible(list) and setPage(1), which a later
\* render applies.  Updates it queued before are applied by this render or
\* superseded.
ViewEffect ==
  /\ visible' = visibleRendered
  /\ page' = pageRendered
  /\ pending' = <<[visible |-> ViewList(allProblems', filters', sort'),
                   resetPage |-> TRUE]>>

\* The render that applies the updates the effect queued.  A setPage of the
\* pager queued after the effect's setPage(1) is applied after it.
renderEffectUpdates ==
  /\ pending # <<>>
  /\ visible' = pending[1].visible
  /\ page' = IF pending[1].resetPage THEN 1 ELSE page
  /\ pending' = <<>>
  /\ UNCHANGED <<store, fetched, allProblems, loading, filters, sort, pageSize,
                 lanes, pc, store0, fetchLog, events>>

\* loadData up to its first await
loadData ==
  /\ pc = "init"
  /\ IF store.kind # "absent" /\ CacheReadThrows(store)
     THEN /\ pc' = "fetchCatch"
          /\ UNCHANGED <<allProblems, visible, loading, page, pending>>
     ELSE IF store.kind = "json" /\ store.version = DATA_VERSION
     THEN IF store.shape = "array"
          THEN /\ allProblems' = store.data
               /\ loading' = FALSE
               /\ pc' = "ready"
               /\ UNCHANGED <<filters, sort>>
               /\ ViewEffect
          ELSE \* setAllProblems(parsed.data) with no array: the render throws
               /\ loading' = FALSE
               /\ pc' = "crashed"
               /\ UNCHANGED <<allProblems, visible, page, pending>>
     ELSE /\ pc' = "fetchTry"
          /\ UNCHANGED <<allProblems, visible, loading, page, pending>>
  /\ UNCHANGED <<store, fetched, filters, sort, pageSize, lanes, store0, fetchLog,
                 events>>

\* Where control goes when fetchAndMerge rejects
Rejected == IF pc = "fetchTry" THEN "fetchCatch" ELSE "failed"

\* fetchAndMerge after fetch and res.json() resolved
fetchAndMerge(raw) ==
  /\ pc \in {"fetchTry", "fetchCatch"}
  /\ fetchLog' = Append(fetchLog, "ok")
  /\ fetched' = raw
  /\ IF ~SavedReadThrows(store)
     THEN /\ allProblems' = merged(saved(store), raw)
          /\ store' = persist(allProblems')
          /\ loading' = FALSE
          /\ pc' = "ready"
          /\ UNCHANGED <<filters, sort>>
          /\ ViewEffect
     ELSE /\ pc' = Rejected
          /\ UNCHANGED <<store, allProblems, visible, loading, page, pending>>
  /\ UNCHANGED <<filters, sort, pageSize, lanes, store0, events>>

\* Faulty variant of fetchRejected: the loading flag is cleared when the fetch
\* rejects.
fetchRejectedFinally ==
  /\ pc \in {"fetchTry", "fetchCatch"}
  /\ fetchLog' = Append(fetchLog, "fail")
  /\ pc' = Rejected
  /\ loading' = FALSE
  /\ UNCHANGED <<store, fetched, allProblems, visible, filters, sort, page,
                 pageSize, pending, lanes, store0, events>>

\* fetchAndMerge when fetch or res.json() rejects
fetchRejected ==
  /\ pc \in {"fetchTry", "fetchCatch"}
  /\ fetchLog' = Append(fetchLog, "fail")
  /\ pc' = Rejected
  /\ UNCHANGED <<store, fetched, allProblems, visible, loading, filters, sort,
                 page, pageSize, pending, lanes, store0, events>>

\* onChange of a control of the filter bar: setFilters({ ...filters, k: v })
setFilters(f) ==
  /\ Ready
  /\ Handled
  /\ filters' = f
  /\ UNCHANGED <<allProblems, sort>>
  /\ ViewEffect
  /\ UNCHANGED <<store, fetched, loading, pageSize, lanes, pc, store0, fetchLog>>

\* toggle(key) of Table
toggle(key) ==
  /\ Ready
  /\ Handled
  /\ sort' = [key |-> key,
              dir |-> IF sort.key = key /\ sort.dir = "asc" THEN "desc" ELSE "asc"]
  /\ UNCHANGED <<allProblems, filters>>
  /\ ViewEffect
  /\ UNCHANGED <<store, fetched, loading, pageSize, lanes, pc, store0, fetchLog>>

\* onChange of the page-size select
setPageSize(n) ==
  /\ Ready
  /\ Handled
  /\ pageSize' = n
  /\ visible' = visibleRendered
  /\ page' = pageRendered
  /\ pending' = IF TakesQueued THEN <<>> ELSE pending
  /\ UNCHANGED <<store, fetched, allProblems, loading, filters, sort, lanes, pc,
                 store0, fetchLog>>

\* A button of Pager; Pager renders nothing when pages <= 1.  The click is
\* rendered at once; a setPage(1) the effect queued earlier comes before it
\* in the queue, in the same render or rebased, and no longer decides the
\* page.
setPage(n) ==
  /\ Ready
  /\ Handled
  /\ pages(Len(visible), pageSize) > 1
  /\ n <= MaxPage
  /\ page' = n
  /\ visible' = visibleRendered
  /\ pending' = IF pending = <<>> \/ TakesQueued THEN <<>>
                ELSE <<[pending[1] EXCEPT !.resetPage = FALSE]>>
  /\ UNCHANGED <<store, fetched, allProblems, loading, filters, sort, pageSize,
                 lanes, pc, store0, fetchLog>>

PagerFirst == page # 1 /\ setPage(1)
PagerPrev  == page # 1 /\ setPage(page - 1)
PagerNext  == page # pages(Len(visible), pageSize) /\ setPage(page + 1)
PagerLast  == page # pages(Len(visible), pageSize)
              /\ setPage(pages(Len(visible), pageSize))

\* Faulty variant of update: persist is given the list of the current render.
updatePersistStale(id, patch) ==
  /\ Ready
  /\ Handled
  /\ allProblems' = [i \in 1..Len(allProblems) |-> ApplyPatch(allProblems[i], id, patch)]
  /\ store' = persist(allProblems)
  /\ UNCHANGED <<filters, sort>>
  /\ ViewEffect
  /\ UNCHANGED <<fetched, loading, pageSize, lanes, pc, store0, fetchLog>>

\* update(id, patch)
update(id, patch) ==
  /\ Ready
  /\ Handled
  /\ allProblems' = [i \in 1..Len(allProblems) |-> ApplyPatch(allProblems[i], id, patch)]
  /\ store' = persist(allProblems')
  /\ UNCHANGED <<filters, sort>>
  /\ ViewEffect
  /\ UNCHANGED <<fetched, loading, pageSize, lanes, pc, store0, fetchLog>>

\* The rows Table renders: of the visible list and page of the last render
Rows == slice(visible, page, pageSize)

Next ==
  \/ loadData
  \/ \E raw \in RawLists : fetchAndMerge(raw)
  \/ fetchRejected
  \/ renderEffectUpdates
  \/ \E v \in MinValues : setFilters([filters EXCEPT !.min = v])
  \/ \E v \in MaxValues : setFilters([filters EXCEPT !.max = v])
  \/ \E q \in QueryValues : setFilters([filters EXCEPT !.query = q])
  \/ setFilters([filters EXCEPT !.solved = ~filters.solved])
  \/ setFilters([filters EXCEPT !.starred = ~filters.starred])
  \/ \E k \in SortKeys : toggle(k)
  \/ \E n \in PageSizeOptions : setPageSize(n)
  \/ PagerFirst
  \/ PagerPrev
  \/ PagerNext
  \/ PagerLast
  \/ \E i \in 1..Len(Rows) : update(Rows[i].id, [solved |-> ~Rows[i].solved])
  \/ \E i \in 1..Len(Rows) : update(Rows[i].id, [starred |-> ~Rows[i].starred])
  \/ \E i \in 1..Len(Rows), v \in TextValues : update(Rows[i].id, [tc |-> v])
  \/ \E i \in 1..Len(Rows), v \in TextValues : update(Rows[i].id, [sc |-> v])
  \/ \E i \in 1..Len(Rows), v \in TextValues : update(Rows[i].id, [notes |-> v])

Spec == Init /\ [][Next]_vars

\* ================================================================= claims
\* The snapshot the page was opened with, as the claims speak of it.
PrevSnapshot ==
  IF store0.kind = "json" /\ store0.shape = "array" THEN store0.data ELSE <<>>

VersionMismatch == store0.kind = "json" /\ store0.version # DATA_VERSION

CacheReadFailed ==
  \/ store0.kind \in {"absent", "garbage", "null"}
  \/ VersionMismatch

LastFetchOk == fetchLog # <<>> /\ fetchLog[Len(fetchLog)] = "ok"

\* What the user sees: the loading screen, the tracker, or nothing after a
\* render that threw.
UIState ==
  IF pc = "crashed" THEN "Crashed" ELSE IF loading THEN "Loading" ELSE "Ready"

UserFields == {"solved", "starred", "notes", "tc", "sc"}
CanonicalFields == {"id", "title", "slug", "rating", "contest", "difficulty"}

SameOn(p, q, fields) == \A k \in fields : p[k] = q[k]

\* C1: when the cache read failed (store absent, not JSON, or of another
\* version) and the fetch succeeded, the UI is Ready with one record per
\* fetched record.
C1_CacheReadFailureRecovered ==
  (CacheReadFailed /\ LastFetchOk) =>
    /\ UIState = "Ready"
    /\ Len(allProblems) = Len(fetched)
    /\ \A i \in 1..Len(fetched) : allProblems[i].id = ToString(fetched[i].ID)

\* C2: once the fetch has resolved, initialisation from a store of another
\* version has given the list and the snapshot that an empty store gives.
C2_MismatchEqualsAbsence ==
  (VersionMismatch /\ LastFetchOk /\ events = 0) =>
    /\ UIState = "Ready"
    /\ allProblems = merged(saved(StoreAbsent), fetched)
    /\ store = persist(merged(saved(StoreAbsent), fetched))

\* The integer nearest to a number given in tenths, halves upwards.
Nearest(tenths) == CHOOSE n \in 0..4000 : 10 * n - 5 <= tenths /\ tenths < 10 * n + 5

\* C3: right after fetch-and-merge the list has one record per raw record, in
\* raw order, with canonical fields from the raw record and user-owned fields
\* from the previous record of the same id, or false/false/""/""/"" without
\* one; an id only the previous snapshot has is not in the list.
C3_MergeEqualsReference ==
  (Ready /\ LastFetchOk /\ events = 0) =>
    /\ Len(allProblems) = Len(fetched)
    /\ \A i \in 1..Len(fetched) :
         LET r == fetched[i]
             p == allProblems[i]
             olds == {j \in 1..Len(PrevSnapshot) : PrevSnapshot[j].id = ToString(r.ID)}
         IN /\ p.id = ToString(r.ID)
            /\ p.title = r.Title
            /\ p.slug = r.TitleSlug
            /\ p.rating = (IF r.Rating = <<>> THEN 0 ELSE Nearest(r.Rating[1]))
            /\ p.contest = (IF r.ContestID_en = <<>> THEN "" ELSE r.ContestID_en[1])
            /\ p.difficulty = inferDifficulty(r.ProblemIndex)
            /\ \A j \in olds : SameOn(p, PrevSnapshot[j], UserFields)
            /\ olds = {} =>
                 /\ p.solved = FALSE /\ p.starred = FALSE
                 /\ p.notes = "" /\ p.tc = "" /\ p.sc = ""
    /\ \A j \in 1..Len(PrevSnapshot) :
         (\A i \in 1..Len(fetched) : ToString(fetched[i].ID) # PrevSnapshot[j].id)
           => \A i \in 1..Len(allProblems) : allProblems[i].id # PrevSnapshot[j].id

\* C3 witness: a merge that carried progress over, defaulted a new id and
\* dropped an id that is no longer fetched.
C3_Witness ==
  /\ Ready /\ LastFetchOk /\ events = 0
  /\ \E i \in 1..Len(allProblems) : allProblems[i].starred /\ allProblems[i].tc = "n"
  /\ \E i \in 1..Len(allProblems) :
       \A j \in 1..Len(PrevSnapshot) : PrevSnapshot[j].id # allProblems[i].id
  /\ \E j \in 1..Len(PrevSnapshot) :
       \A i \in 1..Len(allProblems) : PrevSnapshot[j].id # allProblems[i].id

\* C4: once a fetch attempt has failed there is no further attempt, the list
\* and the store are as they were, and the UI is Loading.
C4_NoRetryAfterFailure ==
  \A i \in 1..Len(fetchLog) :
    fetchLog[i] = "fail" =>
      /\ i = Len(fetchLog)
      /\ UIState = "Loading"
      /\ allProblems = <<>>
      /\ store = store0

\* C5: in Ready the page lies in 1..max(1, pages).
C5_PageInRange ==
  Ready =>
    LET n == pages(Len(visible), pageSize)
    IN 1 <= page /\ page <= (IF n > 1 THEN n ELSE 1)

\* C6: after a change of the filters, the sort spec or the full list the page
\* is 1 before a further user action is handled: while the page reset of a
\* change is outstanding, no user action is handled on another page.
C6_ChangeResetsPage ==
  [][(events' # events /\ pending # <<>> /\ pending[1].resetPage) => page = 1]_vars

\* A stored snapshot of the current version holds a list, as every snapshot
\* persist writes does.
CurrentSnapshotHasList ==
  (store0.kind = "json" /\ store0.version = DATA_VERSION) => store0.shape = "array"

\* C7: the UI is in Loading or in Ready and nothing else; it starts in
\* Loading, leaves it only for Ready, only on a cache hit under the current
\* version or on a fetch that resolved and was merged and persisted, and
\* never leaves Ready.  The store the page is opened with is any text, except
\* that a snapshot of the current version holds a list.
C7_LoadingThenReady ==
  /\ UIState = "Loading"
  /\ [][CurrentSnapshotHasList =>
        /\ UIState' \in {"Loading", "Ready"}
        /\ UIState = "Ready" => UIState' = "Ready"
        /\ (UIState = "Loading" /\ UIState' = "Ready") =>
             \/ /\ pc = "init"
                /\ store.kind = "json" /\ store.version = DATA_VERSION
                /\ allProblems' = store.data
             \/ /\ Len(fetchLog') = Len(fetchLog) + 1
                /\ fetchLog'[Len(fetchLog')] = "ok"
                /\ Len(allProblems') = Len(fetched')
                /\ store'.data = allProblems']_vars

\* C7 witness: Ready after a failed and then a resolved fetch, with user
\* events handled since.
C7_Witness == UIState = "Ready" /\ fetchLog = <<"fail", "ok">> /\ events > 0

\* C8: in Ready, once the updates of the view effect are rendered, a record
\* of the full list is visible exactly when it passes every active
\* predicate, and visible holds records of the full list only.
C8_VisibleIsConjunctiveFilter ==
  (Ready /\ pending = <<>>) =>
    LET q == toLowerCase(filters.query)
        InVisible(p) == \E j \in 1..Len(visible) : visible[j] = p
    IN /\ \A i \in 1..Len(allProblems) :
            LET p == allProblems[i]
            IN InVisible(p) <=>
                 /\ filters.min <= p.rating /\ p.rating <= filters.max
                 /\ (~filters.solved \/ p.solved)
                 /\ (~filters.starred \/ p.starred)
                 /\ \/ filters.query = <<>>
                    \/ includes(toLowerCase(p.title), q)
                    \/ includes(p.id, q)
       /\ \A j \in 1..Len(visible) :
            \E i \in 1..Len(allProblems) : allProblems[i] = visible[j]

\* C8 witness: the effect's updates are rendered, a query and a checkbox
\* filter are active, a record passes and another is excluded.
C8_Witness ==
  /\ Ready /\ pending = <<>>
  /\ filters.query # <<>>
  /\ filters.solved \/ filters.starred
  /\ Len(visible) >= 1
  /\ Len(visible) < Len(allProblems)

\* C9: in Ready the store holds a snapshot of the current version whose data
\* is the full list.
C9_StoreMirrorsList ==
  Ready =>
    store = [kind |-> "json", version |-> DATA_VERSION, shape |-> "array",
             data |-> allProblems]

\* C9 witness: Ready from a cache hit, and an edit has rewritten the store.
C9_Witness == Ready /\ fetchLog = <<>> /\ store # store0

\* C10: a step of Ready that changes the full list changes one user-owned
\* field of the records with one id and nothing else of the list, and leaves
\* filters, sort spec and page size alone.
C10_UpdateFrame ==
  [][(Ready /\ allProblems' # allProblems) =>
       /\ Len(allProblems') = Len(allProblems)
       /\ filters' = filters /\ sort' = sort /\ pageSize' = pageSize
       /\ \A i \in 1..Len(allProblems) :
            SameOn(allProblems'[i], allProblems[i], CanonicalFields)
       /\ \E i0 \in 1..Len(allProblems), f \in UserFields :
            \A i \in 1..Len(allProblems) :
              IF allProblems[i].id = allProblems[i0].id
              THEN SameOn(allProblems'[i], allProblems[i], UserFields \ {f})
              ELSE allProblems'[i] = allProblems[i]]_vars

\* C10 witness: a list of several records in which an edit set the notes of
\* one record and not of another.
C10_Witness ==
  /\ Ready
  /\ \E i, j \in 1..Len(allProblems) :
       allProblems[i].notes = "n" /\ allProblems[j].notes # "n"

====
